---- MODULE Spec2Model ----
(***************************************************************************)
(* XrInputSourceFacade (troika-xr, webxr-wip): one XR input device as a    *)
(* state machine.  The handlers of the class are the actions:              *)
(*   afterUpdate, _onXrFrame (with _trackGamepadState), _onSessionEvent,   *)
(*   _onSceneRayEvent, destructor,                                         *)
(* and the owner of the facade assigns its public fields (xrSession,       *)
(* xrInputSource, isPointing, cursor/targetRay/grip).                      *)
(*                                                                         *)
(* Encodings.  JS null and undefined are the strings "null" and            *)
(* "undefined" where the code tells them apart (_lastXrSession), a missing *)
(* or null array slot of _buttonPresses is NoPress (all are falsy and the  *)
(* code only tests truthiness).  Times are milliseconds.  Axis values and  *)
(* wheel deltas are thousandths (1.0 = 1000), haptic intensities are       *)
(* tenths, so that the arithmetic stays in the integers.  Event names the  *)
(* code matches with regular expressions are sequences of characters.      *)
(*                                                                         *)
(* The variables world, pulses, dispatched and sessionCalls record what    *)
(* the most recent handler sent out (notifyWorld, hapticActuator.pulse,    *)
(* target.dispatchEvent, add/removeEventListener on a session); op records *)
(* which handler that was and the inputs it read.  observed is the         *)
(* history a reader of the polls sees: per button of the latest poll, the  *)
(* time since which it has been seen pressed; unmatched is the set of      *)
(* buttons for which the tracker has sent a mousedown and no mouseup yet,  *)
(* framePose the target-ray pose that the latest frame resolved.           *)
(***************************************************************************)
EXTENDS Integers, Sequences, FiniteSets

VARIABLES
  xrInputSource,    \* required prop: [targetRayMode, gamepad, gripSpace]
  xrSession,        \* required prop: "null" or a session
  _lastXrSession,   \* "undefined" until the first update pass
  isPointing,
  cursor, targetRay, grip,   \* child configs: a facade config or "null"
  targetRayPose, gripPose, rayIntersection,
  children,         \* the three child slots
  _ray,
  _buttonPresses,
  now,              \* Date.now()
  sessionListeners, \* {<<session, type>>} where _onSessionEvent is registered
  sceneListeners,   \* scene event types where _onSceneRayEvent is registered
  destroyed,
  world,            \* notifyWorld calls of the latest handler, in order
  pulses,           \* hapticActuator.pulse calls of the latest handler
  dispatched,       \* target.dispatchEvent calls of the latest handler
  sessionCalls,     \* add/removeEventListener calls on sessions, latest handler
  op,               \* the latest handler and its inputs
  observed,         \* per button of the latest poll: pressed since (NoPress: not pressed)
  unmatched,        \* buttons with a mousedown sent by the tracker and no mouseup since
  framePose         \* the target-ray pose the latest frame resolved, "null" for none

vars == <<xrInputSource, xrSession, _lastXrSession, isPointing, cursor, targetRay,
          grip, targetRayPose, gripPose, rayIntersection, children, _ray,
          _buttonPresses, now, sessionListeners, sceneListeners, destroyed,
          world, pulses, dispatched, sessionCalls, op, observed, unmatched,
          framePose>>

-----------------------------------------------------------------------------
(* Bounds of the model *)

MaxButtons == 2
MaxAxes == 3
\* Date.now() at construction, and how far the clock may run on.
Epoch == 1000
MaxElapsed == 302

-----------------------------------------------------------------------------
(* Module constants of the source *)

Null == "null"
Undefined == "undefined"

SCENE_EVENTS == {"mousemove", "mouseover", "mouseout", "mousedown", "mouseup", "click"}

selectstart == <<"s","e","l","e","c","t","s","t","a","r","t">>
select == <<"s","e","l","e","c","t">>
selectend == <<"s","e","l","e","c","t","e","n","d">>
squeezestart == <<"s","q","u","e","e","z","e","s","t","a","r","t">>
squeeze == <<"s","q","u","e","e","z","e">>
squeezeend == <<"s","q","u","e","e","z","e","e","n","d">>

XRSESSION_EVENTS == <<selectstart, select, selectend, squeezestart, squeeze, squeezeend>>

CLICK_MAX_DUR == 300

\* xr-standard layout: buttons[0] is the primary trigger, buttons[1] the primary squeeze.
BUTTON_TRIGGER == 0
BUTTON_SQUEEZE == 1

\* HAPTICS, intensities in tenths: mouseover 0.3 for 10 ms, click 1 for 20 ms.
HapticMouseoverValue == 3
HapticMouseoverDuration == 10
HapticClickValue == 10
HapticClickDuration == 20
\* the fallbacks of  pulse(value || 1, duration || 100)
HapticDefaultValue == 10
HapticDefaultDuration == 100

NoHaptic == [value |-> 0, duration |-> 0]

HAPTICS(type) ==
  CASE type = "mouseover" -> [value |-> HapticMouseoverValue, duration |-> HapticMouseoverDuration]
    [] type = "click" -> [value |-> HapticClickValue, duration |-> HapticClickDuration]
    [] OTHER -> NoHaptic

DEFAULT_CURSOR == "CursorFacade"
DEFAULT_TARGET_RAY == "TargetRayFacade"
DEFAULT_GRIP == "GripFacade"

\* utils.assign(defaults): the config object a device is constructed with,
\* carrying the fields of defaults.  It is the device's own: the update passes
\* of another device do not write to it.
assign(defaults) == defaults

\* a null or never-written slot of _buttonPresses
NoPress == 0
\* the factor of  axes[i] * 10  and the deadzone 0.1, in thousandths
WheelScale == 10
Deadzone == 100
\* deltaMode: 0, pixel mode
PixelMode == 0
\* the button field of an action that carries none (wheel, motion)
NoButton == -1

-----------------------------------------------------------------------------
(* Values *)

Sessions == {"s1", "s2"}
Poses == {"poseA", "poseB"}
Hits == {"hitA", "hitB"}
Targets == {"scene", "objA"}

\* XRRigidTransform of a pose: position, and orientation as quarter turns about Y.
PosePosition(p) == IF p = "poseA" THEN <<0, 1, 0>> ELSE <<2, 1, 5>>
PoseOrientation(p) == IF p = "poseA" THEN 0 ELSE 1

\* new Ray(): origin at zero, direction (0, 0, -1)
NewRay == [origin |-> <<0, 0, 0>>, direction |-> <<0, 0, -1>>]

\* (0, 0, -1).applyQuaternion(q) for q a rotation of k quarter turns about Y
ApplyQuaternion(k) ==
  CASE k = 0 -> <<0, 0, -1>>
    [] k = 1 -> <<-1, 0, 0>>
    [] k = 2 -> <<0, 0, 1>>
    [] OTHER -> <<1, 0, 0>>

RayFromPose(p) == [origin |-> PosePosition(p), direction |-> ApplyQuaternion(PoseOrientation(p))]

NoGamepad == [exists |-> FALSE, mapping |-> "", hapticActuators |-> <<>>]
Gamepad(mapping, actuators) == [exists |-> TRUE, mapping |-> mapping, hapticActuators |-> actuators]

InputSource(mode, gamepad, gripSpace) ==
  [targetRayMode |-> mode, gamepad |-> gamepad, gripSpace |-> gripSpace]

\* what notifyWorld receives
Motion(ray) ==
  [event |-> "rayPointerMotion", ray |-> ray, type |-> "", button |-> NoButton,
   deltaX |-> 0, deltaY |-> 0, deltaMode |-> PixelMode]
Action(ray, type, button) ==
  [event |-> "rayPointerAction", ray |-> ray, type |-> type, button |-> button,
   deltaX |-> 0, deltaY |-> 0, deltaMode |-> PixelMode]
Wheel(ray, deltaX, deltaY) ==
  [event |-> "rayPointerAction", ray |-> ray, type |-> "wheel", button |-> NoButton,
   deltaX |-> deltaX, deltaY |-> deltaY, deltaMode |-> PixelMode]

-----------------------------------------------------------------------------
(* toggleEvents and the listener lists of the event targets *)

RECURSIVE ToggleCalls(_, _, _)
\* the add/removeEventListener calls toggleEvents makes, in order
ToggleCalls(target, on, eventTypes) ==
  IF target \in {Null, Undefined} \/ eventTypes = <<>>
  THEN <<>>
  ELSE <<[method |-> IF on THEN "add" ELSE "remove", target |-> target,
          type |-> Head(eventTypes)]>>
       \o ToggleCalls(target, on, Tail(eventTypes))

RECURSIVE ApplyCalls(_, _)
\* EventTarget: adding a registered listener and removing an absent one are no-ops
ApplyCalls(listeners, calls) ==
  IF calls = <<>>
  THEN listeners
  ELSE LET c == Head(calls)
           l == IF c.method = "add"
                THEN listeners \cup {<<c.target, c.type>>}
                ELSE listeners \ {<<c.target, c.type>>}
       IN ApplyCalls(l, Tail(calls))

IsXrStandardGamepad(source) ==
  source.gamepad.exists /\ source.gamepad.mapping = "xr-standard"


-----------------------------------------------------------------------------
(* afterUpdate *)

\* (a variant that subscribes on the new session and leaves the old one alone)
SessionChangeCalls_NoTeardown(session, lastSession, source) ==
  IF session # lastSession /\ ~IsXrStandardGamepad(source)
  THEN ToggleCalls(session, TRUE, XRSESSION_EVENTS)
  ELSE <<>>

\* lines 88-96: on a session change, tear down on the old session, then
\* subscribe on the new one unless the gamepad is tracked by polling
SessionChangeCalls(session, lastSession, source) ==
  IF session # lastSession
  THEN ToggleCalls(lastSession, FALSE, XRSESSION_EVENTS)
       \o (IF ~IsXrStandardGamepad(source)
           THEN ToggleCalls(session, TRUE, XRSESSION_EVENTS)
           ELSE <<>>)
  ELSE <<>>

ChildNull == [value |-> "null"]
ChildFalse == [value |-> "false"]

\* (a variant that writes the two poses into each other's field)
ChildConfig_SwappedPoses(cfg, key, trPose, gPose, hit, source) ==
  IF cfg = Null
  THEN ChildNull
  ELSE [value |-> "object", facade |-> cfg, key |-> key, targetRayPose |-> gPose,
        gripPose |-> trPose, rayIntersection |-> hit, xrInputSource |-> source]

\* a config written by afterUpdate and placed in its slot
ChildConfig(cfg, key, trPose, gPose, hit, source) ==
  IF cfg = Null
  THEN ChildNull
  ELSE [value |-> "object", facade |-> cfg, key |-> key, targetRayPose |-> trPose,
        gripPose |-> gPose, rayIntersection |-> hit, xrInputSource |-> source]

\* isPointing && cfg
PointingAnd(pointing, cfg, key, trPose, gPose, hit, source) ==
  IF ~pointing THEN ChildFalse ELSE ChildConfig(cfg, key, trPose, gPose, hit, source)

\* lines 100-109
CursorCfg(source, pointing, cfg, trPose, gPose, hit) ==
  IF source.targetRayMode # "screen"
  THEN PointingAnd(pointing, cfg, "cursor", trPose, gPose, hit, source)
  ELSE ChildNull

\* lines 110-118
TargetRayCfg(source, pointing, cfg, trPose, gPose, hit) ==
  IF source.targetRayMode = "tracked-pointer"
  THEN PointingAnd(pointing, cfg, "targetRay", trPose, gPose, hit, source)
  ELSE ChildNull

\* (a variant that shows the grip only while pointing, like the other two)
GripCfg_WhilePointing(source, pointing, cfg, trPose, gPose, hit) ==
  IF source.targetRayMode = "tracked-pointer" /\ gPose # Null
  THEN PointingAnd(pointing, cfg, "grip", trPose, gPose, hit, source)
  ELSE ChildNull

\* lines 110, 119-126
GripCfg(source, pointing, cfg, trPose, gPose, hit) ==
  IF source.targetRayMode = "tracked-pointer" /\ gPose # Null
  THEN ChildConfig(cfg, "grip", trPose, gPose, hit, source)
  ELSE ChildNull

\* lines 98-130: children[0..2]
UpdateChildren(source, pointing, cursorCfg, targetRayCfg, gripCfg, trPose, gPose, hit) ==
  <<CursorCfg(source, pointing, cursorCfg, trPose, gPose, hit),
    TargetRayCfg(source, pointing, targetRayCfg, trPose, gPose, hit),
    GripCfg(source, pointing, gripCfg, trPose, gPose, hit)>>

-----------------------------------------------------------------------------
(* _trackGamepadState *)

\* pressedTimes[i], i counted from 0; a slot past the end reads as undefined
PressedAt(pressedTimes, i) ==
  IF i < Len(pressedTimes) THEN pressedTimes[i + 1] ELSE NoPress

\* pressedTimes.length = n
SetLength(pressedTimes, n) ==
  [k \in 1..n |-> IF k <= Len(pressedTimes) THEN pressedTimes[k] ELSE NoPress]

\* pressedTimes[i] = v, growing the array when i is past its end
SetAt(pressedTimes, i, v) ==
  [k \in 1..(IF i < Len(pressedTimes) THEN Len(pressedTimes) ELSE i + 1) |->
     IF k = i + 1 THEN v
     ELSE IF k <= Len(pressedTimes) THEN pressedTimes[k] ELSE NoPress]

\* (a variant that sends the click ahead of the mouseup)
ButtonActions_ClickFirst(i, pressed, prev, t, pointing, ray) ==
  IF pressed # (prev # NoPress) /\ pointing
  THEN (IF prev # NoPress /\ ~pressed /\ t - prev <= CLICK_MAX_DUR
        THEN <<Action(ray, "click", i)>>
        ELSE <<>>)
       \o <<Action(ray, IF pressed THEN "mousedown" ELSE "mouseup", i)>>
  ELSE <<>>

\* lines 173-189, what one button emits
ButtonActions(i, pressed, prev, t, pointing, ray) ==
  IF pressed # (prev # NoPress) /\ pointing
  THEN <<Action(ray, IF pressed THEN "mousedown" ELSE "mouseup", i)>>
       \o (IF prev # NoPress /\ ~pressed /\ t - prev <= CLICK_MAX_DUR
           THEN <<Action(ray, "click", i)>>
           ELSE <<>>)
  ELSE <<>>

\* lines 188-190, the array after one iteration: the write on a change, then
\* the resize, which is inside the loop body
ButtonRecord(i, buttons, pressedTimes, t) ==
  LET pressed == buttons[i + 1]
      prev == PressedAt(pressedTimes, i)
      written == IF pressed # (prev # NoPress)
                 THEN SetAt(pressedTimes, i, IF pressed THEN t ELSE NoPress)
                 ELSE pressedTimes
  IN SetLength(written, Len(buttons))

RECURSIVE ButtonLoop(_, _, _, _, _, _)
\* lines 172-191: for (i = 0; i < buttons.length; i++)
ButtonLoop(i, buttons, pressedTimes, t, pointing, ray) ==
  IF i >= Len(buttons)
  THEN [pressedTimes |-> pressedTimes, out |-> <<>>]
  ELSE LET out == ButtonActions(i, buttons[i + 1], PressedAt(pressedTimes, i), t, pointing, ray)
           rest == ButtonLoop(i + 1, buttons, ButtonRecord(i, buttons, pressedTimes, t),
                              t, pointing, ray)
       IN [pressedTimes |-> rest.pressedTimes, out |-> out \o rest.out]

\* (axes[i] || 0), i counted from 0
AxisOrZero(axes, i) == IF i < Len(axes) THEN axes[i + 1] ELSE 0

\* (a variant that lets a vector of exactly 0.1 through)
ExceedsDeadzone_Inclusive(deltaX, deltaY) ==
  deltaX * deltaX + deltaY * deltaY >= Deadzone * Deadzone

\* Math.hypot(deltaX, deltaY) > 0.1
ExceedsDeadzone(deltaX, deltaY) ==
  deltaX * deltaX + deltaY * deltaY > Deadzone * Deadzone

RECURSIVE AxisLoop(_, _, _, _)
\* lines 195-211: for (i = 0; i < axes.length; i += 2)
AxisLoop(i, axes, pointing, ray) ==
  IF i >= Len(axes)
  THEN <<>>
  ELSE LET deltaX == AxisOrZero(axes, i) * WheelScale
           deltaY == AxisOrZero(axes, i + 1) * WheelScale
       IN (IF ExceedsDeadzone(deltaX, deltaY) /\ pointing
           THEN <<Wheel(ray, deltaX, deltaY)>>
           ELSE <<>>)
          \o AxisLoop(i + 2, axes, pointing, ray)

TrackGamepadState(buttons, axes, pressedTimes, t, pointing, ray) ==
  LET b == ButtonLoop(0, buttons, pressedTimes, t, pointing, ray)
  IN [pressedTimes |-> b.pressedTimes, out |-> b.out \o AxisLoop(0, axes, pointing, ray)]

\* the polls as their reader sees them: a button of this poll has been pressed
\* since the poll that first showed it pressed, with no poll since that showed
\* it released or did not have it
Observe(before, buttons, t) ==
  [k \in 1..Len(buttons) |->
     IF buttons[k]
     THEN (IF k <= Len(before) /\ before[k] # NoPress THEN before[k] ELSE t)
     ELSE NoPress]

RECURSIVE Unmatched(_, _)
\* the buttons left with a mousedown and no mouseup after the actions of out
Unmatched(downs, out) ==
  IF out = <<>>
  THEN downs
  ELSE LET a == Head(out)
           d == IF a.event = "rayPointerAction" /\ a.type = "mousedown"
                THEN downs \cup {a.button}
                ELSE IF a.event = "rayPointerAction" /\ a.type = "mouseup"
                THEN downs \ {a.button}
                ELSE downs
       IN Unmatched(d, Tail(out))


-----------------------------------------------------------------------------
(* _onSessionEvent *)

\* /^prefix/.test(name)
StartsWith(name, prefix) ==
  /\ Len(name) >= Len(prefix)
  /\ SubSeq(name, 1, Len(prefix)) = prefix

\* /suffix$/.test(name)
EndsWith(name, suffix) ==
  /\ Len(name) >= Len(suffix)
  /\ SubSeq(name, Len(name) - Len(suffix) + 1, Len(name)) = suffix

\* line 220
SessionActionType(name) ==
  IF EndsWith(name, <<"s","t","a","r","t">>) THEN "mousedown"
  ELSE IF EndsWith(name, <<"e","n","d">>) THEN "mouseup"
  ELSE "click"

\* line 221
SessionActionButton(name) ==
  IF StartsWith(name, squeeze) THEN BUTTON_SQUEEZE ELSE BUTTON_TRIGGER

-----------------------------------------------------------------------------
(* _onSceneRayEvent *)

\* (a variant that also pulses when the scene root itself is hovered)
HapticPulse_AnyMouseover(type, isScene) ==
  IF type = "click" THEN HAPTICS("click")
  ELSE IF type = "mouseover" THEN HAPTICS("mouseover")
  ELSE NoHaptic

\* lines 233-236: the pulse of a notification, NoHaptic for none
HapticPulse(type, isScene) ==
  IF type = "click" THEN HAPTICS("click")
  ELSE IF type = "mouseover" /\ ~isScene THEN HAPTICS("mouseover")
  ELSE NoHaptic

\* v || d
OrDefault(v, d) == IF v = 0 THEN d ELSE v

\* lines 237-243: the pulse calls, on gamepad.hapticActuators[0] when there is one
PulseCalls(hapticPulse, gamepad) ==
  IF hapticPulse # NoHaptic /\ gamepad.exists /\ Len(gamepad.hapticActuators) > 0
  THEN <<[actuator |-> gamepad.hapticActuators[1],
          value |-> OrDefault(hapticPulse.value, HapticDefaultValue),
          duration |-> OrDefault(hapticPulse.duration, HapticDefaultDuration)]>>
  ELSE <<>>

\* (a variant whose squeeze row repeats the select names)
RAY_TARGET_EVENTS_SelectOnly(button, type) ==
  IF button \in {BUTTON_TRIGGER, BUTTON_SQUEEZE}
  THEN CASE type = "mousedown" -> "xrselectstart"
         [] type = "mouseup" -> "xrselectend"
         [] type = "click" -> "xrselect"
         [] OTHER -> ""
  ELSE ""

\* RAY_TARGET_EVENTS[button] && RAY_TARGET_EVENTS[button][type], "" for undefined
RAY_TARGET_EVENTS(button, type) ==
  IF button = BUTTON_TRIGGER
  THEN CASE type = "mousedown" -> "xrselectstart"
         [] type = "mouseup" -> "xrselectend"
         [] type = "click" -> "xrselect"
         [] OTHER -> ""
  ELSE IF button = BUTTON_SQUEEZE
  THEN CASE type = "mousedown" -> "xrsqueezestart"
         [] type = "mouseup" -> "xrsqueezeend"
         [] type = "click" -> "xrsqueeze"
         [] OTHER -> ""
  ELSE ""

\* lines 246-251: the dispatchEvent calls
DispatchCalls(button, type, target) ==
  LET xrTargetEvent == RAY_TARGET_EVENTS(button, type)
  IN IF xrTargetEvent # ""
     THEN <<[type |-> xrTargetEvent, bubbles |-> TRUE, eventSource |-> "this",
             target |-> target]>>
     ELSE <<>>


-----------------------------------------------------------------------------
(* State after construction (lines 48-83), with the required prop            *)
(* xrInputSource assigned: every handler dereferences it.                    *)

InitState(source) ==
  /\ xrInputSource = source
  /\ xrSession = Null
  /\ _lastXrSession = Undefined
  /\ isPointing = TRUE
  /\ cursor = assign(DEFAULT_CURSOR)
  /\ targetRay = assign(DEFAULT_TARGET_RAY)
  /\ grip = assign(DEFAULT_GRIP)
  /\ targetRayPose = Null
  /\ gripPose = Null
  /\ rayIntersection = Null
  /\ children = <<ChildNull, ChildNull, ChildNull>>
  /\ _ray = NewRay
  /\ _buttonPresses = <<>>
  /\ now = Epoch
  /\ sessionListeners = {}
  /\ sceneListeners = SCENE_EVENTS
  /\ destroyed = FALSE
  /\ world = <<>>
  /\ pulses = <<>>
  /\ dispatched = <<>>
  /\ sessionCalls = <<>>
  /\ op = [name |-> "constructor"]
  /\ observed = <<>>
  /\ unmatched = {}
  /\ framePose = Null

-----------------------------------------------------------------------------
(* The owner assigns the public fields *)

Assigned ==
  /\ world' = <<>>
  /\ pulses' = <<>>
  /\ dispatched' = <<>>
  /\ sessionCalls' = <<>>
  /\ op' = [name |-> "assign"]

SetXrSession(session) ==
  /\ ~destroyed
  /\ xrSession # session
  /\ xrSession' = session
  /\ Assigned
  /\ UNCHANGED <<xrInputSource, _lastXrSession, isPointing, cursor, targetRay, grip,
                 targetRayPose, gripPose, rayIntersection, children, _ray,
                 _buttonPresses, now, sessionListeners, sceneListeners, destroyed,
                 observed, unmatched, framePose>>

SetXrInputSource(source) ==
  /\ ~destroyed
  /\ xrInputSource # source
  /\ xrInputSource' = source
  /\ Assigned
  /\ UNCHANGED <<xrSession, _lastXrSession, isPointing, cursor, targetRay, grip,
                 targetRayPose, gripPose, rayIntersection, children, _ray,
                 _buttonPresses, now, sessionListeners, sceneListeners, destroyed,
                 observed, unmatched, framePose>>

SetIsPointing(pointing) ==
  /\ ~destroyed
  /\ isPointing # pointing
  /\ isPointing' = pointing
  /\ Assigned
  /\ UNCHANGED <<xrInputSource, xrSession, _lastXrSession, cursor, targetRay, grip,
                 targetRayPose, gripPose, rayIntersection, children, _ray,
                 _buttonPresses, now, sessionListeners, sceneListeners, destroyed,
                 observed, unmatched, framePose>>

SetChildConfigs(cursorCfg, targetRayCfg, gripCfg) ==
  /\ ~destroyed
  /\ <<cursor, targetRay, grip>> # <<cursorCfg, targetRayCfg, gripCfg>>
  /\ cursor' = cursorCfg
  /\ targetRay' = targetRayCfg
  /\ grip' = gripCfg
  /\ Assigned
  /\ UNCHANGED <<xrInputSource, xrSession, _lastXrSession, isPointing,
                 targetRayPose, gripPose, rayIntersection, children, _ray,
                 _buttonPresses, now, sessionListeners, sceneListeners, destroyed,
                 observed, unmatched, framePose>>

-----------------------------------------------------------------------------
(* The handlers *)

\* afterUpdate (lines 85-133) on the fields as the caller has left them
UpdatePass(trPose, gPose, hit) ==
  LET calls == SessionChangeCalls(xrSession, _lastXrSession, xrInputSource)
  IN /\ sessionCalls' = calls
     /\ sessionListeners' = ApplyCalls(sessionListeners, calls)
     /\ _lastXrSession' = xrSession
     /\ children' = UpdateChildren(xrInputSource, isPointing, cursor, targetRay, grip,
                                   trPose, gPose, hit)

\* the update pass the owner runs after assigning fields
AfterUpdate ==
  /\ ~destroyed
  /\ UpdatePass(targetRayPose, gripPose, rayIntersection)
  /\ world' = <<>>
  /\ pulses' = <<>>
  /\ dispatched' = <<>>
  /\ op' = [name |-> "afterUpdate", lastXrSession |-> _lastXrSession]
  /\ UNCHANGED <<xrInputSource, xrSession, isPointing, cursor, targetRay, grip,
                 targetRayPose, gripPose, rayIntersection, _ray, _buttonPresses, now,
                 sceneListeners, destroyed, observed, unmatched, framePose>>

\* (a variant that moves the ray whether or not the device is pointing)
RayMoved_IgnoresPointing(hasReferenceSpace, posedRay, pointing) ==
  hasReferenceSpace /\ posedRay # Null

\* lines 140, 144: the frame moves the ray and reports the motion
RayMoved(hasReferenceSpace, posedRay, pointing) ==
  hasReferenceSpace /\ posedRay # Null /\ pointing

\* _onXrFrame (lines 135-159).  hasReferenceSpace: the camera has an
\* offsetReferenceSpace; posedRay, posedGrip: what xrFrame.getPose resolves;
\* buttons, axes: the gamepad's arrays at this frame; dt: the time since the
\* handler last read the clock.
XrFrame(hasReferenceSpace, posedRay, posedGrip, buttons, axes, dt) ==
  /\ ~destroyed
  /\ now + dt <= Epoch + MaxElapsed
  /\ LET t == now + dt
         moved == RayMoved(hasReferenceSpace, posedRay, isPointing)
         ray == IF moved THEN RayFromPose(posedRay) ELSE _ray
         trPose == IF hasReferenceSpace THEN posedRay ELSE targetRayPose
         gPose == IF hasReferenceSpace
                  THEN (IF xrInputSource.gripSpace THEN posedGrip ELSE Null)
                  ELSE gripPose
         polled == IsXrStandardGamepad(xrInputSource)
         tracked == IF polled
                    THEN TrackGamepadState(buttons, axes, _buttonPresses, t, isPointing, ray)
                    ELSE [pressedTimes |-> _buttonPresses, out |-> <<>>]
     IN /\ now' = t
        /\ _ray' = ray
        /\ targetRayPose' = trPose
        /\ gripPose' = gPose
        /\ _buttonPresses' = tracked.pressedTimes
        /\ world' = (IF moved THEN <<Motion(ray)>> ELSE <<>>) \o tracked.out
        /\ observed' = IF polled THEN Observe(observed, buttons, t) ELSE observed
        /\ unmatched' = Unmatched(unmatched, tracked.out)
        /\ framePose' = IF hasReferenceSpace THEN posedRay ELSE Null
        /\ UpdatePass(trPose, gPose, rayIntersection)
        /\ op' = [name |-> "xrframe", polled |-> polled, pointing |-> isPointing,
                  buttons |-> buttons, axes |-> axes, time |-> t, before |-> observed,
                  hasReferenceSpace |-> hasReferenceSpace, posedRay |-> posedRay,
                  posedGrip |-> posedGrip, lastXrSession |-> _lastXrSession,
                  rayBefore |-> _ray, unmatchedBefore |-> unmatched]
  /\ pulses' = <<>>
  /\ dispatched' = <<>>
  /\ UNCHANGED <<xrInputSource, xrSession, isPointing, cursor, targetRay, grip,
                 rayIntersection, sceneListeners, destroyed>>

\* _onSessionEvent (lines 214-223): the session delivers an event of the
\* given name to the listeners registered for it
SessionEvent(session, name) ==
  /\ <<session, name>> \in sessionListeners
  /\ world' = <<Action(_ray, SessionActionType(name), SessionActionButton(name))>>
  /\ pulses' = <<>>
  /\ dispatched' = <<>>
  /\ sessionCalls' = <<>>
  /\ op' = [name |-> "sessionEvent", session |-> session, type |-> name]
  /\ UNCHANGED <<xrInputSource, xrSession, _lastXrSession, isPointing, cursor,
                 targetRay, grip, targetRayPose, gripPose, rayIntersection, children,
                 _ray, _buttonPresses, now, sessionListeners, sceneListeners,
                 destroyed, observed, unmatched, framePose>>

\* the scene facade, on which the constructor registers _onSceneRayEvent: it
\* is the currentTarget of every notification the handler receives
SceneRoot == "scene"

\* (a variant that handles the notifications of every device)
HandlesSceneEvent_AnySource(eventSource) == TRUE

\* line 227: e.nativeEvent.eventSource === this
HandlesSceneEvent(eventSource) == eventSource = "this"

\* _onSceneRayEvent (lines 225-253) on the notification e with e.type,
\* e.target, e.nativeEvent.eventSource, e.intersection and e.button as given
SceneRayEvent(type, target, eventSource, intersection, button) ==
  /\ type \in sceneListeners
  /\ IF HandlesSceneEvent(eventSource)
     THEN /\ rayIntersection' = intersection
          /\ UpdatePass(targetRayPose, gripPose, intersection)
          /\ pulses' = PulseCalls(HapticPulse(type, target = SceneRoot),
                                  xrInputSource.gamepad)
          /\ dispatched' = DispatchCalls(button, type, target)
     ELSE /\ pulses' = <<>>
          /\ dispatched' = <<>>
          /\ sessionCalls' = <<>>
          /\ UNCHANGED <<rayIntersection, _lastXrSession, sessionListeners, children>>
  /\ world' = <<>>
  /\ op' = [name |-> "sceneRayEvent", type |-> type, target |-> target,
            eventSource |-> eventSource, intersection |-> intersection,
            button |-> button, lastXrSession |-> _lastXrSession]
  /\ UNCHANGED <<xrInputSource, xrSession, isPointing, cursor, targetRay, grip,
                 targetRayPose, gripPose, _ray, _buttonPresses, now, sceneListeners,
                 destroyed, observed, unmatched, framePose>>

\* destructor (lines 255-259)
Destructor ==
  /\ ~destroyed
  /\ destroyed' = TRUE
  /\ LET calls == ToggleCalls(xrSession, FALSE, XRSESSION_EVENTS)
     IN /\ sessionCalls' = calls
        /\ sessionListeners' = ApplyCalls(sessionListeners, calls)
  /\ sceneListeners' = sceneListeners \ SCENE_EVENTS
  /\ world' = <<>>
  /\ pulses' = <<>>
  /\ dispatched' = <<>>
  /\ op' = [name |-> "destructor"]
  /\ UNCHANGED <<xrInputSource, xrSession, _lastXrSession, isPointing, cursor,
                 targetRay, grip, targetRayPose, gripPose, rayIntersection, children,
                 _ray, _buttonPresses, now, observed, unmatched, framePose>>


-----------------------------------------------------------------------------
(* Inputs *)

ButtonArrays == UNION {[1..n -> BOOLEAN] : n \in 0..MaxButtons}

\* thousandths: 6 and -8 make a pair of magnitude exactly 0.1 after scaling
AxisValues == {-8, 0, 6, 11}
AxisArrays == UNION {[1..n -> AxisValues] : n \in 0..MaxAxes}

\* milliseconds between two readings of the clock
Steps == {0, 150, 151}

StandardPad == Gamepad("xr-standard", <<"actuator0">>)

-----------------------------------------------------------------------------
(* The gamepad state tracker: a tracked pointer with an xr-standard gamepad, *)
(* polled frame after frame while the owner toggles isPointing.              *)

InitPad == InitState(InputSource("tracked-pointer", StandardPad, TRUE))

NextPad ==
  \/ \E buttons \in ButtonArrays, axes \in {<<>>, <<0, 11>>}, dt \in Steps :
       XrFrame(TRUE, "poseA", Null, buttons, axes, dt)
  \/ \E pointing \in BOOLEAN : SetIsPointing(pointing)

SpecPad == InitPad /\ [][NextPad]_vars

\* rayPointerAction notifications of the latest handler with this type and button
Count(type, button) ==
  Cardinality({k \in 1..Len(world) :
                 /\ world[k].event = "rayPointerAction"
                 /\ world[k].type = type
                 /\ world[k].button = button})

PolledFrame == op.name = "xrframe" /\ op.polled

\* button i (from 0) in the poll before the latest one; a button that poll
\* did not have counts as not pressed
WasPressed(i) == PressedAt(op.before, i) # NoPress
IsPressed(i) == i < Len(op.buttons) /\ op.buttons[i + 1]

\* C1: on a polled frame with pointing enabled, button i yields exactly one
\* mousedown when it went from not pressed to pressed, exactly one mouseup when
\* it went from pressed to not pressed, and no mousedown, mouseup or click when
\* its pressed state is that of the previous poll.
C1_TransitionActions ==
  (PolledFrame /\ op.pointing) =>
    \A i \in 0..MaxButtons :
      /\ Count("mousedown", i) = (IF ~WasPressed(i) /\ IsPressed(i) THEN 1 ELSE 0)
      /\ Count("mouseup", i) = (IF WasPressed(i) /\ ~IsPressed(i) /\ i < Len(op.buttons)
                                THEN 1 ELSE 0)
      /\ (WasPressed(i) = IsPressed(i) => Count("click", i) = 0)


\* C2: on a polled frame with pointing enabled, button i yields a click, next
\* to its mouseup, exactly when it is released no more than CLICK_MAX_DUR after
\* the poll that showed it pressed; a later release, and a button still held,
\* yield none.
C2_ClickWithinWindow ==
  (PolledFrame /\ op.pointing) =>
    \A i \in 0..MaxButtons :
      LET released == WasPressed(i) /\ ~IsPressed(i) /\ i < Len(op.buttons)
          clicked == released /\ op.time - PressedAt(op.before, i) <= CLICK_MAX_DUR
      IN /\ Count("click", i) = (IF clicked THEN 1 ELSE 0)
         /\ (clicked => Count("mouseup", i) = 1)

\* C11: after every poll _buttonPresses is as long as the gamepad's button
\* array of that poll, whether the array grew, shrank or became empty, so that
\* no record of a button the array no longer has is kept.
C11_LengthTracksButtons ==
  PolledFrame => Len(_buttonPresses) = Len(op.buttons)

IsActionOf(a, type) == a.event = "rayPointerAction" /\ a.type = type

\* the buttons with an unmatched mousedown just before the k-th notification
\* of the latest frame
UnmatchedBefore(k) == Unmatched(op.unmatchedBefore, SubSeq(world, 1, k - 1))

\* C18: over any sequence of polled frames, with isPointing toggled and the
\* number of buttons changing in between, the mousedown and mouseup actions
\* of a button alternate, starting with mousedown: a mousedown comes only
\* when none is unmatched, a mouseup (and its click) only when one is.
C18_Pairing ==
  PolledFrame =>
    \A k \in 1..Len(world) :
      /\ IsActionOf(world[k], "mousedown") => world[k].button \notin UnmatchedBefore(k)
      /\ IsActionOf(world[k], "mouseup") => world[k].button \in UnmatchedBefore(k)
      /\ IsActionOf(world[k], "click") =>
           /\ k > 1
           /\ world[k].button \in UnmatchedBefore(k - 1)

\* Releases inside and outside the click window: polls over every button
\* array, at the same instant and 301 ms apart.
ClickSteps == {0, 301}

NextClick ==
  \/ \E buttons \in ButtonArrays, dt \in ClickSteps :
       XrFrame(TRUE, "poseA", Null, buttons, <<>>, dt)
  \/ \E pointing \in BOOLEAN : SetIsPointing(pointing)

SpecClick == InitPad /\ [][NextClick]_vars

\* C19: in a poll, a click of button i comes right after the mouseup of
\* button i of the same poll, nothing in between, and never without it.
C19_ClickAfterMouseup ==
  PolledFrame =>
    \A k \in 1..Len(world) :
      IsActionOf(world[k], "click") =>
        /\ k > 1
        /\ IsActionOf(world[k - 1], "mouseup")
        /\ world[k - 1].button = world[k].button

\* a poll in which button 0 goes down while button 1 is released and clicks
C19_Witness ==
  /\ PolledFrame
  /\ Len(world) >= 4
  /\ world[1].event = "rayPointerMotion"
  /\ IsActionOf(world[2], "mousedown") /\ world[2].button = 0
  /\ IsActionOf(world[3], "mouseup") /\ world[3].button = 1
  /\ IsActionOf(world[4], "click") /\ world[4].button = 1


-----------------------------------------------------------------------------
(* The axes of the gamepad: frames over every axis array, while the owner    *)
(* toggles isPointing and swaps the input source's gamepad.                  *)

OtherPad == Gamepad("", <<"actuator0">>)

NextAxes ==
  \/ \E axes \in AxisArrays :
       XrFrame(TRUE, "poseA", Null, <<>>, axes, 0)
  \/ \E pointing \in BOOLEAN : SetIsPointing(pointing)
  \/ \E gamepad \in {StandardPad, OtherPad} :
       SetXrInputSource(InputSource("tracked-pointer", gamepad, TRUE))

SpecAxes == InitPad /\ [][NextAxes]_vars

IsWheel(a) == a.event = "rayPointerAction" /\ a.type = "wheel"
Wheels == SelectSeq(world, IsWheel)

\* the axis pairs of the latest frame, a missing odd index counting as 0
AxisPairs == 0..((Len(op.axes) + 1) \div 2 - 1)
PairX(k) == op.axes[2 * k + 1]
PairY(k) == IF 2 * k + 2 <= Len(op.axes) THEN op.axes[2 * k + 2] ELSE 0
\* the pairs whose vector, scaled by 10, is longer than 0.1
LongPairs ==
  {k \in AxisPairs :
     (10 * PairX(k)) * (10 * PairX(k)) + (10 * PairY(k)) * (10 * PairY(k)) > 100 * 100}

\* C10: a polled frame emits, for each axis pair whose scaled vector is longer
\* than 0.1, exactly one wheel action with deltaX = axis[2k]*10, deltaY =
\* axis[2k+1]*10 and deltaMode 0 when pointing is enabled, in the order of the
\* pairs, and no other wheel action; the pairs of earlier frames add nothing.
C10_AxisToWheel ==
  /\ PolledFrame =>
       LET emitting == IF op.pointing THEN LongPairs ELSE {}
       IN /\ Len(Wheels) = Cardinality(emitting)
          /\ \A k \in emitting :
               LET w == Wheels[Cardinality({j \in emitting : j <= k})]
               IN /\ w.deltaX = 10 * PairX(k)
                  /\ w.deltaY = 10 * PairY(k)
                  /\ w.deltaMode = 0
  /\ ~PolledFrame => Wheels = <<>>

\* an odd number of axes: the first pair lies exactly on the deadzone and is
\* silent, the last axis alone makes a wheel action with deltaY 0
C10_Witness ==
  /\ PolledFrame
  /\ op.pointing
  /\ op.axes = <<6, -8, 11>>
  /\ Len(Wheels) = 1
  /\ Wheels[1].deltaX = 110
  /\ Wheels[1].deltaY = 0


-----------------------------------------------------------------------------
(* Sessions and subscriptions: the owner assigns xrSession and xrInputSource *)
(* and runs update passes, frames arrive, the sessions deliver their events  *)
(* to the registered listeners, and the facade is destroyed at any moment.   *)

SessionGamepads == {NoGamepad, StandardPad, OtherPad}

SessionEventNames == {XRSESSION_EVENTS[k] : k \in 1..Len(XRSESSION_EVENTS)}

InitSession ==
  \E gamepad \in SessionGamepads : InitState(InputSource("tracked-pointer", gamepad, TRUE))

NextSession ==
  \/ \E session \in Sessions \cup {Null} : SetXrSession(session)
  \/ \E gamepad \in SessionGamepads :
       SetXrInputSource(InputSource("tracked-pointer", gamepad, TRUE))
  \/ AfterUpdate
  \/ \E buttons \in {<<>>, <<TRUE>>} : XrFrame(TRUE, "poseA", Null, buttons, <<>>, 0)
  \/ \E session \in Sessions, name \in SessionEventNames : SessionEvent(session, name)
  \/ SceneRayEvent("click", "objA", "this", "hitA", BUTTON_TRIGGER)
  \/ Destructor

SpecSession == InitSession /\ [][NextSession]_vars

\* the latest handler was, or ended with, an update pass
UpdatePassDone ==
  \/ op.name \in {"afterUpdate", "xrframe"}
  \/ op.name = "sceneRayEvent" /\ op.eventSource = "this"

\* C3: when the gamepad is present and xr-standard, so that frames run the
\* gamepad state tracker, _onSessionEvent is subscribed to no session event.
\* Stated for the states in which a frame has just run the tracker.
C3_MutualExclusion ==
  PolledFrame => sessionListeners = {}

\* the action a discrete session event stands for
C4_Type(name) ==
  CASE name \in {selectstart, squeezestart} -> "mousedown"
    [] name \in {selectend, squeezeend} -> "mouseup"
    [] OTHER -> "click"
C4_Button(name) ==
  IF name \in {squeezestart, squeeze, squeezeend} THEN BUTTON_SQUEEZE ELSE BUTTON_TRIGGER

\* C4: with the gamepad absent or not xr-standard and a session set, after an
\* update pass the handler is subscribed to the six events of the current
\* session, and each delivered event yields exactly one rayPointerAction:
\* ...start -> mousedown, ...end -> mouseup, else click; squeeze... -> SQUEEZE,
\* else TRIGGER.
C4_EventDriven ==
  /\ (UpdatePassDone /\ ~IsXrStandardGamepad(xrInputSource) /\ xrSession \in Sessions) =>
       \A name \in SessionEventNames : <<xrSession, name>> \in sessionListeners
  /\ op.name = "sessionEvent" =>
       /\ Len(world) = 1
       /\ world[1].event = "rayPointerAction"
       /\ world[1].type = C4_Type(op.type)
       /\ world[1].button = C4_Button(op.type)

\* C5: an update pass that sees a new xrSession removes the handler from the
\* old session before it adds it to the new one, and after every update pass
\* the handler is subscribed on no session other than the current xrSession.
C5_SessionChange ==
  UpdatePassDone =>
    /\ \A l \in sessionListeners : l[1] = xrSession
    /\ \A j, k \in 1..Len(sessionCalls) :
         (sessionCalls[j].method = "remove" /\ sessionCalls[k].method = "add") => j < k
    /\ \A k \in 1..Len(sessionCalls) :
         sessionCalls[k].target =
           (IF sessionCalls[k].method = "remove" THEN op.lastXrSession ELSE xrSession)
    /\ (op.lastXrSession \in Sessions /\ op.lastXrSession # xrSession) =>
         \A name \in SessionEventNames :
           \E k \in 1..Len(sessionCalls) :
             sessionCalls[k] = [method |-> "remove", target |-> op.lastXrSession, type |-> name]

\* an update pass that moved a live subscription from s1 to s2
C5_Witness ==
  /\ UpdatePassDone
  /\ op.lastXrSession = "s1"
  /\ xrSession = "s2"
  /\ \E k \in 1..Len(sessionCalls) :
       sessionCalls[k].method = "remove" /\ sessionCalls[k].target = "s1"
  /\ \A name \in SessionEventNames : <<"s2", name>> \in sessionListeners

\* C6: once the destructor has run, the handlers are subscribed to no session
\* event and no scene event, and nothing is sent out any more.
C6_Teardown ==
  destroyed =>
    /\ sessionListeners = {}
    /\ sceneListeners = {}
    /\ world = <<>>
    /\ pulses = <<>>
    /\ dispatched = <<>>


-----------------------------------------------------------------------------
(* The child slots: the owner assigns the input source, isPointing and the   *)
(* child configs, frames resolve or lose the poses, update passes run, and   *)
(* the scene notifies of ray events of this device and of another one.       *)

Modes == {"screen", "gaze", "tracked-pointer"}

InitChildren ==
  \E mode \in Modes, gripSpace \in BOOLEAN :
    InitState(InputSource(mode, NoGamepad, gripSpace))

NextChildren ==
  \/ \E mode \in Modes, gripSpace \in BOOLEAN :
       SetXrInputSource(InputSource(mode, NoGamepad, gripSpace))
  \/ \E pointing \in BOOLEAN : SetIsPointing(pointing)
  \/ \E c \in {Null, DEFAULT_CURSOR}, t \in {Null, DEFAULT_TARGET_RAY},
        g \in {Null, DEFAULT_GRIP} :
       SetChildConfigs(c, t, g)
  \/ \E hasReferenceSpace \in BOOLEAN, posedGrip \in {Null, "poseB"} :
       XrFrame(hasReferenceSpace, "poseA", posedGrip, <<>>, <<>>, 0)
  \/ AfterUpdate
  \/ \E eventSource \in {"this", "other"} :
       SceneRayEvent("mousemove", "objA", eventSource, "hitA", NoButton)

SpecChildren == InitChildren /\ [][NextChildren]_vars

\* slot k (1: cursor, 2: target ray, 3: grip) holds a config
Active(k) == children[k].value = "object"

Mode == xrInputSource.targetRayMode

\* C7, as claimed: after an update pass, by targeting mode: screen - no slot is
\* active; gaze - the cursor is active iff isPointing, the others are not;
\* tracked-pointer - cursor and target ray are active iff isPointing, the grip
\* iff the grip pose is present.
C7_RuleTable ==
  UpdatePassDone =>
    /\ Active(1) <=> (Mode # "screen" /\ isPointing)
    /\ Active(2) <=> (Mode = "tracked-pointer" /\ isPointing)
    /\ Active(3) <=> (Mode = "tracked-pointer" /\ gripPose # Null)

\* C7, amended: the same table, for the slots whose config (cursor, targetRay,
\* grip) is set; a slot whose config is null is inactive in every mode.
C7_RuleTableOfSetConfigs ==
  UpdatePassDone =>
    /\ Active(1) <=> (Mode # "screen" /\ isPointing /\ cursor # Null)
    /\ Active(2) <=> (Mode = "tracked-pointer" /\ isPointing /\ targetRay # Null)
    /\ Active(3) <=> (Mode = "tracked-pointer" /\ gripPose # Null /\ grip # Null)

\* a tracked pointer that is not pointing and has a grip pose: the grip alone
C7_Witness ==
  /\ UpdatePassDone
  /\ Mode = "tracked-pointer"
  /\ ~isPointing
  /\ gripPose # Null
  /\ cursor # Null /\ targetRay # Null /\ grip # Null
  /\ ~Active(1) /\ ~Active(2) /\ Active(3)

\* the key of slot k
ChildKey(k) == <<"cursor", "targetRay", "grip">>[k]

\* C16: after an update pass, of a frame or of a scene notification, every
\* active child slot holds the device's current targetRayPose, gripPose,
\* rayIntersection and xrInputSource and the key of its slot.
C16_ChildSnapshot ==
  UpdatePassDone =>
    \A k \in 1..3 :
      Active(k) =>
        /\ children[k].key = ChildKey(k)
        /\ children[k].targetRayPose = targetRayPose
        /\ children[k].gripPose = gripPose
        /\ children[k].rayIntersection = rayIntersection
        /\ children[k].xrInputSource = xrInputSource

\* after a notification of this device: three active children, all with the
\* new intersection and the poses of the latest frame
C16_Witness ==
  /\ op.name = "sceneRayEvent"
  /\ op.eventSource = "this"
  /\ targetRayPose = "poseA"
  /\ gripPose = "poseB"
  /\ \A k \in 1..3 : Active(k) /\ children[k].rayIntersection = "hitA"

-----------------------------------------------------------------------------
(* Scene notifications: every kind of ray event, of this device and of       *)
(* another one, on the scene root and on an object, while the owner swaps    *)
(* the input source's gamepad (none, without and with haptic actuators).     *)

NotifyGamepads ==
  {NoGamepad, Gamepad("xr-standard", <<>>), Gamepad("xr-standard", <<"actuator0">>),
   Gamepad("", <<"actuator0", "actuator1">>)}

NotifyButtons == {NoButton, BUTTON_TRIGGER, BUTTON_SQUEEZE, BUTTON_SQUEEZE + 1}

InitNotify ==
  \E gamepad \in NotifyGamepads : InitState(InputSource("tracked-pointer", gamepad, TRUE))

NextNotify ==
  \/ \E type \in SCENE_EVENTS, target \in Targets, eventSource \in {"this", "other"},
        hit \in {Null, "hitA"}, button \in NotifyButtons :
       SceneRayEvent(type, target, eventSource, hit, button)
  \/ \E gamepad \in NotifyGamepads :
       SetXrInputSource(InputSource("tracked-pointer", gamepad, TRUE))

SpecNotify == InitNotify /\ [][NextNotify]_vars

SceneEventHandled == op.name = "sceneRayEvent" /\ op.eventSource = "this"

FirstActuator == xrInputSource.gamepad.hapticActuators[1]
HasActuator == xrInputSource.gamepad.exists /\ Len(xrInputSource.gamepad.hapticActuators) > 0

\* C8: a notification of this device pulses the gamepad's first actuator
\* exactly once, with (1.0, 20 ms) for a click and (0.3, 10 ms) for a mouseover
\* of a target other than the scene root, and not at all for any other type or
\* for a mouseover of the scene root; without an actuator or a gamepad nothing
\* is pulsed and the notification is handled all the same.
C8_Haptics ==
  op.name = "sceneRayEvent" =>
    /\ pulses =
         (IF SceneEventHandled /\ HasActuator /\ op.type = "click"
          THEN <<[actuator |-> FirstActuator, value |-> 10, duration |-> 20]>>
          ELSE IF /\ SceneEventHandled /\ HasActuator /\ op.type = "mouseover"
                  /\ op.target # SceneRoot
          THEN <<[actuator |-> FirstActuator, value |-> 3, duration |-> 10]>>
          ELSE <<>>)
    /\ SceneEventHandled => rayIntersection = op.intersection

\* a mouseover of an object, pulsed weakly
C8_Witness ==
  /\ SceneEventHandled
  /\ op.type = "mouseover"
  /\ op.target = "objA"
  /\ pulses = <<[actuator |-> "actuator0", value |-> 3, duration |-> 10]>>

\* the secondary event of a button and a type, "" for none
C9_Name(button, type) ==
  CASE button = BUTTON_TRIGGER /\ type = "mousedown" -> "xrselectstart"
    [] button = BUTTON_TRIGGER /\ type = "mouseup" -> "xrselectend"
    [] button = BUTTON_TRIGGER /\ type = "click" -> "xrselect"
    [] button = BUTTON_SQUEEZE /\ type = "mousedown" -> "xrsqueezestart"
    [] button = BUTTON_SQUEEZE /\ type = "mouseup" -> "xrsqueezeend"
    [] button = BUTTON_SQUEEZE /\ type = "click" -> "xrsqueeze"
    [] OTHER -> ""

\* C9: a notification of this device dispatches exactly one secondary event
\* to its target, bubbling and with this device as eventSource, named after
\* the button and the type (TRIGGER: xrselectstart/end/xrselect, SQUEEZE:
\* xrsqueezestart/end/xrsqueeze), and none for any other button or type.
C9_SecondaryDispatch ==
  op.name = "sceneRayEvent" =>
    dispatched =
      (IF SceneEventHandled /\ C9_Name(op.button, op.type) # ""
       THEN <<[type |-> C9_Name(op.button, op.type), bubbles |-> TRUE,
               eventSource |-> "this", target |-> op.target]>>
       ELSE <<>>)

\* a squeeze click on an object
C9_Witness ==
  /\ SceneEventHandled
  /\ op.button = BUTTON_SQUEEZE
  /\ op.type = "click"
  /\ dispatched = <<[type |-> "xrsqueeze", bubbles |-> TRUE, eventSource |-> "this",
                     target |-> "objA"]>>

-----------------------------------------------------------------------------
(* Frames: a tracked pointer, polled or event-driven, through frames with    *)
(* and without a reference space and a resolved pose, while the owner        *)
(* toggles isPointing and sets the session, the session delivers its events  *)
(* and the scene notifies of ray events of this device and of another one.   *)

FramePads == {NoGamepad, StandardPad}

\* gamepad.buttons and gamepad.axes at a frame
FrameSamples == {<<<<>>, <<>>>>, <<<<TRUE>>, <<11>>>>, <<<<FALSE>>, <<>>>>}

\* the camera's offsetReferenceSpace and what xrFrame.getPose resolves for
\* the target-ray space and the grip space at a frame
FrameQueries ==
  {<<TRUE, Null, Null>>, <<TRUE, "poseA", "poseB">>, <<TRUE, "poseB", Null>>,
   <<FALSE, "poseA", "poseB">>}

InitFrame ==
  \E gamepad \in FramePads : InitState(InputSource("tracked-pointer", gamepad, TRUE))

NextFrame ==
  \/ \E query \in FrameQueries, sample \in FrameSamples :
       XrFrame(query[1], query[2], query[3], sample[1], sample[2], 0)
  \/ \E pointing \in BOOLEAN : SetIsPointing(pointing)
  \/ SetXrSession("s1")
  \/ \E name \in {selectstart, squeeze} : SessionEvent("s1", name)
  \/ \E eventSource \in {"this", "other"}, hit \in {Null, "hitA"} :
       SceneRayEvent("mousemove", "objA", eventSource, hit, NoButton)

SpecFrame == InitFrame /\ [][NextFrame]_vars

\* C12: after a frame, targetRayPose and gripPose are each the pose this
\* frame's query resolved, or null; they are null when the frame had no
\* reference space or the query did not resolve the pose.
C12_PosesOfThisFrame ==
  op.name = "xrframe" =>
    /\ targetRayPose \in {op.posedRay, Null}
    /\ gripPose \in {op.posedGrip, Null}
    /\ (~op.hasReferenceSpace \/ op.posedRay = Null) => targetRayPose = Null
    /\ (~op.hasReferenceSpace \/ op.posedGrip = Null) => gripPose = Null

\* C13: every rayPointerAction, of the tracker and of the session events,
\* carries the ray of the target-ray pose that the current frame resolved.
C13_CurrentRay ==
  \A k \in 1..Len(world) :
    world[k].event = "rayPointerAction" =>
      /\ framePose # Null
      /\ world[k].ray = RayFromPose(framePose)

\* C14: rayIntersection changes only in a scene notification whose event
\* source is this device; frames, update passes, polls and session events
\* leave it as it is.
C14_IntersectionRetained ==
  [][rayIntersection' # rayIntersection =>
       (op'.name = "sceneRayEvent" /\ op'.eventSource = "this")]_vars

\* a frame without a reference space, after which the intersection is still there
C14_Witness ==
  /\ op.name = "xrframe"
  /\ ~op.hasReferenceSpace
  /\ targetRayPose = Null
  /\ rayIntersection = "hitA"

\* C17: while isPointing is false the device sends out no rayPointerAction
\* and no rayPointerMotion, from whichever source.
C17_PointingGate ==
  ~isPointing => world = <<>>

Motions == {k \in 1..Len(world) : world[k].event = "rayPointerMotion"}

\* C20: a frame reports rayPointerMotion once when it has a reference space,
\* resolves the target-ray pose and the device is pointing, and not at all
\* otherwise; the report comes before the actions of the frame's poll, and a
\* frame that does not report leaves the ray as it was.
C20_MotionPerFrame ==
  op.name = "xrframe" =>
    LET emitted == op.hasReferenceSpace /\ op.posedRay # Null /\ op.pointing
    IN /\ Motions = (IF emitted THEN {1} ELSE {})
       /\ emitted => world[1] = Motion(RayFromPose(op.posedRay)) /\ _ray = RayFromPose(op.posedRay)
       /\ ~emitted => _ray = op.rayBefore

\* a frame that moved the ray to a new pose, reported it, then a press
C20_Witness ==
  /\ op.name = "xrframe"
  /\ op.rayBefore # _ray
  /\ Len(world) = 3
  /\ world[1].event = "rayPointerMotion"
  /\ world[2].type = "mousedown"
  /\ world[3].type = "wheel"

====
